---- MODULE Spec2Model ----
(***************************************************************************)
(* A model of the noise-injection part of yanc.py: the blend helpers, the  *)
(* staged injection sampler YANCNIKSampler.do_it and the structured noise  *)
(* synthesizer YANCNoiseFromImage.do_it.                                   *)
(*                                                                         *)
(* Tensor values are exact rationals <<n, d>> in lowest terms, d >= 0.     *)
(* d = 0 encodes the IEEE specials a division by zero produces:            *)
(* <<1, 0>> is +inf, <<-1, 0>> is -inf and <<0, 0>> is NaN.                *)
(* Decimal parameters of the node interface (cfg_noise, noise_strength,    *)
(* inject_time, denoise) are held in hundredths, the "round": 0.01 grid    *)
(* of INPUT_TYPES.                                                         *)
(***************************************************************************)
EXTENDS Integers, Sequences, FiniteSets, TLC

\* Python's None (also the value of a local not yet bound), and an optional
\* input the host left unconnected (the keyword is then not passed to do_it
\* at all).
None == [none |-> TRUE]
Omitted == [omitted |-> TRUE]

(***************************************************************************)
(* Exact arithmetic on tensor elements.                                    *)
(***************************************************************************)
Abs(x) == IF x < 0 THEN -x ELSE x

Sign(x) == IF x < 0 THEN -1 ELSE IF x > 0 THEN 1 ELSE 0

RECURSIVE Gcd(_, _)
Gcd(a, b) == IF b = 0 THEN a ELSE Gcd(b, a % b)

\* n/d in lowest terms with d > 0; n/0 is +inf, -inf or NaN by the sign of n.
Rat(n, d) ==
    IF d = 0 THEN <<Sign(n), 0>>
    ELSE LET g == Gcd(Abs(n), Abs(d))
             s == IF d < 0 THEN -1 ELSE 1
         IN  <<(s * n) \div g, (s * d) \div g>>

Zero == <<0, 1>>
One == <<1, 1>>
Two == <<2, 1>>
Half == <<1, 2>>
NaN == <<0, 0>>

IsNaN(x) == x = NaN
IsFinite(x) == x[2] # 0

\* inf + inf keeps its sign; inf - inf and anything with NaN is NaN.
Add(x, y) ==
    IF x[2] = 0 /\ y[2] = 0
    THEN (IF x = y THEN x ELSE NaN)
    ELSE LET g == Gcd(x[2], y[2])
         IN  Rat(x[1] * (y[2] \div g) + y[1] * (x[2] \div g),
                 (x[2] \div g) * y[2])

Neg(x) == <<-x[1], x[2]>>
Sub(x, y) == Add(x, Neg(y))
\* The common factors are cancelled crosswise before multiplying.
Mul(x, y) ==
    IF x[2] = 0 \/ y[2] = 0
    THEN Rat(Sign(x[1]) * Sign(y[1]), 0)
    ELSE LET g == Gcd(Abs(x[1]), y[2])
             h == Gcd(Abs(y[1]), x[2])
         IN  Rat((x[1] \div g) * (y[1] \div h), (x[2] \div h) * (y[2] \div g))
\* x / y; x / 0 is an infinity (NaN for 0 / 0), x / inf is 0.
Div(x, y) == Mul(x, Rat(y[2], y[1]))

\* Comparisons with NaN are false.
Lt(x, y) ==
    /\ ~IsNaN(x) /\ ~IsNaN(y)
    /\ IF x[2] = 0 /\ y[2] = 0 THEN x[1] < y[1]
       ELSE IF x[2] = 0 THEN x[1] < 0
       ELSE IF y[2] = 0 THEN y[1] > 0
       ELSE x[1] * y[2] < y[1] * x[2]

\* torch.max / torch.min of two elements: NaN propagates.
Max2(x, y) == IF IsNaN(x) \/ IsNaN(y) THEN NaN ELSE IF Lt(x, y) THEN y ELSE x
Min2(x, y) == IF IsNaN(x) \/ IsNaN(y) THEN NaN ELSE IF Lt(y, x) THEN y ELSE x

\* A hundredths parameter as a tensor scalar.
Hundredths(c) == Rat(c, 100)

(***************************************************************************)
(* The blend helpers, elementwise (yanc.py 150-184).                       *)
(***************************************************************************)
\* Soft light with the base taken once where the source squares it.
soft_light_blend_linear(base, blend) ==
    Add(Mul(Mul(Two, base), blend), Mul(base, Sub(One, Mul(Two, blend))))

soft_light_blend(base, blend) ==
    Add(Mul(Mul(Two, base), blend),
        Mul(Mul(base, base), Sub(One, Mul(Two, blend))))

hard_light_blend(base, blend) ==
    Add(Mul(Mul(Two, base), blend),
        Mul(Sub(One, Mul(Two, base)), Sub(One, blend)))

lighten_blend(base, blend) == Max2(base, blend)

darken_blend(base, blend) == Min2(base, blend)

\* What blend_images yields where it raises ValueError("Unsupported blend
\* mode"): no number.
ValueError == <<0, -1>>

\* (1 - blend_rate) * image1 + blend_rate * mixed
Mix(image1, mixed, blend_rate) ==
    Add(Mul(Sub(One, blend_rate), image1), Mul(blend_rate, mixed))

\* One element of blend_images(image1, image2, blend_mode, blend_rate);
\* ValueError for the raise of the else branch.
blend_images(image1, image2, blend_mode, blend_rate) ==
    CASE blend_mode = "multiply" ->
            Mix(image1, Mul(image1, image2), blend_rate)
      [] blend_mode = "add" ->
            Mix(image1, Add(image1, image2), blend_rate)
      [] blend_mode = "overlay" ->
            Mix(image1,
                IF Lt(image1, Half)
                THEN Mul(Mul(Two, image1), image2)
                ELSE Sub(One, Mul(Mul(Two, Sub(One, image1)), Sub(One, image2))),
                blend_rate)
      [] blend_mode = "soft light" ->
            Mix(image1, soft_light_blend(image1, image2), blend_rate)
      [] blend_mode = "hard light" ->
            Mix(image1, hard_light_blend(image1, image2), blend_rate)
      [] blend_mode = "lighten" ->
            Mix(image1, lighten_blend(image1, image2), blend_rate)
      [] blend_mode = "darken" ->
            Mix(image1, darken_blend(image1, image2), blend_rate)
      [] OTHER -> ValueError

(***************************************************************************)
(* Python's rounding, on the decimal grid of the inputs.                   *)
(***************************************************************************)
\* round(n / d) to an integer, n >= 0, d > 0: to the nearest, a tie to the
\* even neighbour.
RoundHalfEven(n, d) ==
    LET q == n \div d
        r == n % d
    IN  IF 2 * r < d THEN q
        ELSE IF 2 * r > d THEN q + 1
        ELSE IF q % 2 = 0 THEN q ELSE q + 1

\* int(steps * inject_time): the product cut off instead of rounded.
InjectAtStepTruncated(steps, inject_time) == (steps * inject_time) \div 100

\* round(steps * inject_time), inject_time in hundredths.  On the inputs of
\* StepsValues and InjectTimes the double product is exact or off a tie, so
\* the decimal product rounds as the double does.
InjectAtStep(steps, inject_time) == RoundHalfEven(steps * inject_time, 100)

RECURSIVE Pow2Mod100(_)
Pow2Mod100(k) == IF k = 0 THEN 1 ELSE (2 * Pow2Mod100(k - 1)) % 100

\* The binary exponent e of c / 100 (c >= 1): 2^e <= c / 100 < 2^(e + 1).
RECURSIVE ExpUp(_, _)
ExpUp(c, e) == IF 200 * (2 ^ e) <= c THEN ExpUp(c, e + 1) ELSE e
RECURSIVE ExpDown(_, _)
ExpDown(c, j) == IF c * (2 ^ j) < 100 THEN ExpDown(c, j + 1) ELSE j
BinaryExponent(c) == IF c >= 100 THEN ExpUp(c, 0) ELSE -ExpDown(c, 0)

\* Whether the double nearest to c / 100 lies above c / 100: the 53-bit
\* significand is c * 2^(52 - e) / 100 rounded to an integer, so the double
\* is the larger one when the dropped fraction exceeds one half.
DoubleAbove(c) ==
    ((c % 100) * Pow2Mod100(52 - BinaryExponent(c))) % 100 > 50

\* round(c / 100, 1) in tenths, c >= 0 in hundredths.  Python rounds the
\* exact value of the double: x.x5 is a true tie (to the even tenth) only
\* when it is a double itself (c a multiple of 25), and otherwise goes the
\* way the double's representation error points.
RoundTenths(c) ==
    LET t == c \div 10
        r == c % 10
    IN  IF r < 5 THEN t
        ELSE IF r > 5 THEN t + 1
        ELSE IF c % 50 = 25 THEN (IF t % 2 = 0 THEN t ELSE t + 1)
        ELSE IF DoubleAbove(c) THEN t + 1 ELSE t

\* The threshold with the tenths rounded on the decimal value, a tie to the
\* even tenth, as if 8.05 were held exactly.
RescaleActiveDecimal(cfg_noise) == RoundHalfEven(cfg_noise, 10) > 80

\* round(cfg_noise, 1) > 8.0
RescaleActive(cfg_noise) == RoundTenths(cfg_noise) > 80

\* The multiplier do_it passes to patch().
RescaleMultiplier == 65

(***************************************************************************)
(* Bounds and input domains.                                               *)
(***************************************************************************)
\* Elements kept of every tensor: the values at NumSamples fixed positions.
NumSamples == 2

StepsValues == {1, 3, 10, 30}
\* inject_time, cfg, cfg_noise, noise_strength, denoise in hundredths.
InjectTimes == {0, 33, 50, 100}
CfgValues == {800}
CfgNoiseValues == {795, 800, 804, 805}
NoiseStrengths == {50, 100}
DenoiseValues == {60, 100}

\* Tensors are [shape, data]: the shape (batch, channels, height, width)
\* and the kept elements.
Uniform(v) == [j \in 1..NumSamples |-> v]
LatentShapes == {<<1, 4, 2, 3>>}
LatentTensors ==
    {[shape |-> sh, data |-> d] : sh \in LatentShapes, d \in [1..NumSamples -> {Zero, One}]}
\* latent_noise tensors hold one value throughout, so that a resample, whose
\* weights sum to one, leaves the kept elements as they are.
NoiseShapes == {<<1, 4, 2, 3>>, <<1, 4, 2, 2>>, <<2, 4, 3, 3>>, <<1, 3, 2, 3>>}
NoiseTensors == {[shape |-> sh, data |-> Uniform(Two)] : sh \in NoiseShapes}
\* A mask is held by its (uniform) alpha.
Masks == {[alpha |-> Half]}

\* Model handles: the caller's, and the one model.clone() allocates.
ModelIds == {"model", "clone"}
Unallocated == [unallocated |-> TRUE]

VARIABLES
    pc,                     \* position in YANCNIKSampler.do_it
    error,                  \* the exception do_it raised and where, or None
    args,                   \* do_it's parameters: the caller's objects
    inject_at_step,
    empty_latent,
    samples_base_sampler,
    samples_base_sampler2,
    samples_out,
    samples_noise,
    patched_model,
    result,
    calls,                  \* collaborator calls issued, in order
    cfg_function,           \* per model handle, its sampler cfg function
    held,                   \* the caller's input objects as they are now
    shares                  \* per local, the caller's object it is or views

samplerLocals ==
    <<inject_at_step, empty_latent, samples_base_sampler, samples_base_sampler2,
      samples_out, samples_noise, patched_model, result>>

samplerVars ==
    <<pc, error, args, samplerLocals, calls, cfg_function, held, shares>>

VARIABLES
    nfi_pc,                 \* position in YANCNoiseFromImage.do_it
    nfi_error,              \* the exception it raised and where, or None
    nfi_args,               \* its parameters: the caller's objects
    noise_blend_rate,
    blended_image,
    i,
    image,
    noisy_image,
    fill_value,
    transformed_img,
    resized_img,
    nfi_result,
    latent,
    nfi_calls,              \* collaborator calls issued, in order
    nfi_held,               \* the caller's image batch as it is now
    nfi_shares              \* per local, the caller's object it is or views

synthLocals ==
    <<noise_blend_rate, blended_image, i, image, noisy_image, fill_value,
      transformed_img, resized_img, nfi_result, latent>>

synthVars ==
    <<nfi_pc, nfi_error, nfi_args, synthLocals, nfi_calls, nfi_held, nfi_shares>>

VARIABLES
    save_pc,                \* position in YANCSaveImage.do_it
    save_error,             \* the exception it raised, or None
    save_args,              \* its parameters
    filename,               \* the base name get_save_image_path returned
    batch_number,           \* index of the image the loop is at
    results,                \* the entries appended so far
    output_folder           \* names of the entries of full_output_folder

saveVars ==
    <<save_pc, save_error, save_args, filename, batch_number, results,
      output_folder>>

vars == <<samplerVars, synthVars, saveVars>>

(***************************************************************************)
(* Collaborators of the sampler (ComfyUI): the contract of each call.      *)
(***************************************************************************)
KSamplerCalls == SelectSeq(calls, LAMBDA c : c.fn = "common_ksampler")

\* nodes.common_ksampler(model, seed, steps, cfg, sampler_name, scheduler,
\* positive, negative, latent, denoise=...), as do_it fills it from its own
\* arguments.
KSamplerCall(m, c, lat, dn) ==
    [fn |-> "common_ksampler", model |-> m, seed |-> args.seed,
     steps |-> args.steps, cfg |-> c, sampler_name |-> args.sampler_name,
     scheduler |-> args.scheduler, positive |-> args.positive,
     negative |-> args.negative, latent |-> lat, denoise |-> dn]

\* A step range that is never empty: an empty one is widened by a step.
StepRangeNonEmpty(dis, first, last, full) ==
    [disable_noise |-> dis, start_step |-> first,
     last_step |-> IF last = first THEN last + 1 ELSE last,
     force_full_denoise |-> full]

\* The keywords of a partial pass: disable_noise, start_step, last_step,
\* force_full_denoise.
StepRange(dis, first, last, full) ==
    [disable_noise |-> dis, start_step |-> first, last_step |-> last,
     force_full_denoise |-> full]

\* What the n-th Denoiser call returns: a 1-tuple holding a latent of the
\* input's shape whose values identify the call.
KSamplerResult(n, lat) ==
    <<[samples |-> [shape |-> lat.samples.shape,
                    data |-> [j \in 1..NumSamples |-> Rat(10 * n + j, 1)]]]>>

\* comfy.utils.common_upscale(samples, width, height, method, crop): batch
\* and channels kept, height and width as asked.
common_upscale(samples, width, height) ==
    [shape |-> <<samples.shape[1], samples.shape[2], height, width>>,
     data |-> samples.data]

\* torch broadcasting of two shapes: dimensions agree or one of them is 1.
Broadcastable(s1, s2) ==
    \A k \in 1..4 : s1[k] = s2[k] \/ s1[k] = 1 \/ s2[k] = 1

Broadcast(s1, s2) == [k \in 1..4 |-> IF s1[k] = 1 THEN s2[k] ELSE s1[k]]

\* masks.composite(destination, source, x, y, mask, multiplier): source
\* over destination by the mask's alpha, in destination's shape.
composite(destination, source, mask) ==
    [shape |-> destination.shape,
     data |-> [j \in 1..NumSamples |->
                 Add(Mul(mask.alpha, source.data[j]),
                     Mul(Sub(One, mask.alpha), destination.data[j]))]]

(***************************************************************************)
(* YANCNIKSampler.do_it (yanc.py 956-1012), one action per statement group *)
(* in program order.                                                       *)
(***************************************************************************)
\* torch.all(t): every element is non-zero.
torch_all(t) == \A j \in 1..NumSamples : t.data[j] # Zero

\* empty_latent = False if torch.all(latent_image["samples"]) != 0 else True
EmptyLatent(lat) == IF torch_all(lat.samples) THEN FALSE ELSE TRUE

NoLocals ==
    /\ inject_at_step' = None
    /\ empty_latent' = None
    /\ samples_base_sampler' = None
    /\ samples_base_sampler2' = None
    /\ samples_out' = None
    /\ samples_noise' = None
    /\ patched_model' = None
    /\ result' = None

\* The exception e swallowed: it is noted, and do_it goes on to its return
\* statement with what it has.
RaiseSwallowed(e) ==
    /\ pc' = "return"
    /\ error' = [type |-> e, at |-> pc]

\* The exception e leaves do_it from the statement at pc: nothing is
\* returned.
Raise(e) ==
    /\ pc' = "raised"
    /\ error' = [type |-> e, at |-> pc]

\* The host calls do_it.  latent_noise is declared optional in INPUT_TYPES
\* but has no default in the signature: left unconnected, binding the
\* arguments fails.
Call ==
    /\ pc = "idle"
    /\ \E st \in StepsValues, it \in InjectTimes, c \in CfgValues,
          cn \in CfgNoiseValues, ns \in NoiseStrengths, dn \in DenoiseValues,
          li \in LatentTensors, ln \in NoiseTensors \cup {None, Omitted},
          mk \in Masks \cup {None} :
          /\ args' = [model |-> "model", seed |-> 7, steps |-> st, cfg |-> c,
                      cfg_noise |-> cn, sampler_name |-> "euler",
                      scheduler |-> "normal", positive |-> "positive",
                      negative |-> "negative", latent_image |-> [samples |-> li],
                      noise_strength |-> ns,
                      latent_noise |-> IF ln \in {None, Omitted} THEN ln
                                       ELSE [samples |-> ln],
                      inject_time |-> it, denoise |-> dn, mask |-> mk]
          /\ IF ln = Omitted
             THEN Raise("TypeError")
             ELSE pc' = "inject" /\ error' = None
    /\ NoLocals
    /\ held' = [latent_image |-> args'.latent_image,
                latent_noise |-> args'.latent_noise]
    /\ shares' = [samples_base_sampler |-> "none", samples_out |-> "none",
                  destination |-> "none"]
    /\ UNCHANGED <<calls, cfg_function>>
    /\ UNCHANGED <<synthVars, saveVars>>

\* 958-962
ComputeInject ==
    /\ pc = "inject"
    /\ inject_at_step' = InjectAtStep(args.steps, args.inject_time)
    /\ empty_latent' = EmptyLatent(args.latent_image)
    /\ pc' = "phaseA"
    /\ UNCHANGED <<error, args, samples_base_sampler, samples_base_sampler2,
                   samples_out, samples_noise, patched_model, result, calls,
                   cfg_function>>
    /\ UNCHANGED <<held, shares>>
    /\ UNCHANGED <<synthVars, saveVars>>

\* The base pass without force_full_denoise.
PhaseACallUnforced ==
    KSamplerCall(args.model, args.cfg, args.latent_image, args.denoise)
        @@ StepRange(FALSE, 0, inject_at_step, FALSE)

\* The arguments of the first Denoiser call (965-966).
PhaseACall ==
    KSamplerCall(args.model, args.cfg, args.latent_image, args.denoise)
        @@ StepRange(FALSE, 0, inject_at_step, TRUE)

\* 964-966: the base pass; the Denoiser returns or raises.
PhaseA ==
    /\ pc = "phaseA"
    /\ calls' = Append(calls, PhaseACall)
    /\ \/ /\ samples_base_sampler' =
                KSamplerResult(Len(KSamplerCalls) + 1, args.latent_image)
          /\ pc' = "fallback"
          /\ error' = error
       \/ /\ Raise("CollaboratorError")
          /\ UNCHANGED samples_base_sampler
    /\ UNCHANGED <<args, inject_at_step, empty_latent, samples_base_sampler2,
                   samples_out, samples_noise, patched_model, result,
                   cfg_function>>
    /\ UNCHANGED <<held, shares>>
    /\ UNCHANGED <<synthVars, saveVars>>

\* The arguments of the full denoise (971-972): no step range is passed.
FallbackCall ==
    KSamplerCall(args.model, args.cfg, args.latent_image, 100)

\* The fallback decided on the latent alone, the mask forgotten.
NeedsFallbackAnyMask == empty_latent

\* if mask is not None and empty_latent (968)
NeedsFallback == args.mask # None /\ empty_latent

\* if mask is not None and not empty_latent (976)
SeedsFromLatent == args.mask # None /\ ~empty_latent

\* 968-972
Fallback ==
    /\ pc = "fallback"
    /\ IF NeedsFallback
       THEN /\ calls' = Append(calls, FallbackCall)
            /\ \/ /\ samples_base_sampler2' =
                        KSamplerResult(Len(KSamplerCalls) + 1, args.latent_image)
                  /\ pc' = "seed"
                  /\ error' = error
               \/ /\ Raise("CollaboratorError")
                  /\ UNCHANGED samples_base_sampler2
       ELSE /\ pc' = "seed"
            /\ UNCHANGED <<calls, samples_base_sampler2, error>>
    /\ UNCHANGED <<args, inject_at_step, empty_latent, samples_base_sampler,
                   samples_out, samples_noise, patched_model, result,
                   cfg_function>>
    /\ UNCHANGED <<held, shares>>
    /\ UNCHANGED <<synthVars, saveVars>>

\* x = obj instead of a copy: x is obj itself.
CopiedByReference(obj) == obj

\* x = obj.copy() for a container, x = obj.clone() for a tensor: x is a new
\* object and shares nothing with obj.
Copied(obj) == "none"

\* An assignment into the object a local is (container["samples"] = value,
\* or a tensor written in place): it shows in the caller's latent_image when
\* the local shares it.
Store(h, target, value) ==
    IF target = "none" THEN h
    ELSE [h EXCEPT !.latent_image = [samples |-> value]]

\* latent.copy() followed by latent["samples"].clone(): a new container
\* holding a new tensor of the same values.
CopyLatent(lat) == [samples |-> [shape |-> lat.samples.shape,
                                data |-> lat.samples.data]]

\* 974-981
SeedBase ==
    /\ pc = "seed"
    /\ samples_base_sampler' =
          IF SeedsFromLatent
          THEN CopyLatent(args.latent_image)
          ELSE samples_base_sampler[1]
    /\ samples_out' = CopyLatent(args.latent_image)
    /\ shares' = [shares EXCEPT
                     !.samples_base_sampler =
                        IF SeedsFromLatent THEN Copied("latent_image") ELSE "none",
                     !.samples_out = Copied("latent_image")]
    /\ held' = Store(Store(held, shares'.samples_base_sampler,
                           samples_base_sampler'.samples),
                     shares'.samples_out, samples_out'.samples)
    /\ pc' = "noise"
    /\ UNCHANGED <<error, args, inject_at_step, empty_latent,
                   samples_base_sampler2, samples_noise, patched_model, result,
                   calls, cfg_function>>
    /\ UNCHANGED <<synthVars, saveVars>>

\* 983-984: latent_noise.copy() raises on None.
CloneNoise ==
    /\ pc = "noise"
    /\ IF args.latent_noise = None
       THEN /\ Raise("AttributeError")
            /\ UNCHANGED samples_noise
       ELSE /\ samples_noise' = [shape |-> args.latent_noise.samples.shape,
                                 data |-> args.latent_noise.samples.data]
            /\ pc' = "reconcile"
            /\ error' = error
    /\ UNCHANGED <<args, inject_at_step, empty_latent, samples_base_sampler,
                   samples_base_sampler2, samples_out, patched_model, result,
                   calls, cfg_function>>
    /\ UNCHANGED <<held, shares>>
    /\ UNCHANGED <<synthVars, saveVars>>

\* The resample with width and height taken from each other's index.
ReconciledNoiseSwapped(noise, base) ==
    common_upscale(noise, base.shape[3], base.shape[4])

\* The resample of 988-989: width from shape[3], height from shape[2] of the
\* base latent (Python's 0-based indices).
ReconciledNoise(noise, base) ==
    common_upscale(noise, base.shape[4], base.shape[3])

\* 986-990; the two permute() calls return views that are dropped.
Reconcile ==
    /\ pc = "reconcile"
    /\ IF samples_base_sampler.samples.shape # samples_noise.shape
       THEN /\ samples_noise' =
                  ReconciledNoise(samples_noise, samples_base_sampler.samples)
            /\ calls' = Append(calls,
                  [fn |-> "common_upscale", samples |-> samples_noise,
                   width |-> samples_base_sampler.samples.shape[4],
                   height |-> samples_base_sampler.samples.shape[3],
                   upscale_method |-> "bicubic", crop |-> "center"])
       ELSE UNCHANGED <<samples_noise, calls>>
    /\ pc' = "blend"
    /\ UNCHANGED <<error, args, inject_at_step, empty_latent,
                   samples_base_sampler, samples_base_sampler2, samples_out,
                   patched_model, result, cfg_function>>
    /\ UNCHANGED <<held, shares>>
    /\ UNCHANGED <<synthVars, saveVars>>

\* The blend with the two weights exchanged.
BlendSamplesSwapped(base, noise, noise_strength) ==
    [shape |-> Broadcast(base.shape, noise.shape),
     data |-> [j \in 1..NumSamples |->
                 Add(Mul(base.data[j], Hundredths(noise_strength)),
                     Mul(noise.data[j], Sub(One, Hundredths(noise_strength))))]]

\* samples_o + samples_n of 992-995, elementwise.
BlendSamples(base, noise, noise_strength) ==
    [shape |-> Broadcast(base.shape, noise.shape),
     data |-> [j \in 1..NumSamples |->
                 Add(Mul(base.data[j], Sub(One, Hundredths(noise_strength))),
                     Mul(noise.data[j], Hundredths(noise_strength)))]]

\* 992-995: the sum raises when batch or channels do not broadcast.
Blend ==
    /\ pc = "blend"
    /\ IF Broadcastable(samples_base_sampler.samples.shape, samples_noise.shape)
       THEN /\ samples_out' =
                  [samples |-> BlendSamples(samples_base_sampler.samples,
                                            samples_noise, args.noise_strength)]
            /\ held' = Store(held, shares.samples_out, samples_out'.samples)
            /\ pc' = "patch"
            /\ error' = error
       ELSE /\ Raise("RuntimeError")
            /\ UNCHANGED <<samples_out, held>>
    /\ UNCHANGED <<args, inject_at_step, empty_latent, samples_base_sampler,
                   samples_base_sampler2, samples_noise, patched_model, result,
                   calls, cfg_function>>
    /\ UNCHANGED shares
    /\ UNCHANGED <<synthVars, saveVars>>

\* patch() setting the cfg function on the handle it was given.
PatchTargetInPlace(model) == model

\* patch(model, multiplier) (120-147): the cfg function is set on a clone.
PatchTarget(model) == "clone"

\* 997-998
Patch ==
    /\ pc = "patch"
    /\ IF RescaleActive(args.cfg_noise)
       THEN /\ cfg_function' =
                  [cfg_function EXCEPT ![PatchTarget(args.model)] =
                      [fn |-> "rescale_cfg", multiplier |-> RescaleMultiplier]]
            /\ patched_model' = PatchTarget(args.model)
            /\ calls' = Append(calls, [fn |-> "patch", model |-> args.model,
                                       multiplier |-> RescaleMultiplier])
       ELSE /\ patched_model' = args.model
            /\ UNCHANGED <<cfg_function, calls>>
    /\ pc' = "phaseB"
    /\ UNCHANGED <<error, args, inject_at_step, empty_latent,
                   samples_base_sampler, samples_base_sampler2, samples_out,
                   samples_noise, result>>
    /\ UNCHANGED <<held, shares>>
    /\ UNCHANGED <<synthVars, saveVars>>

\* The injection pass at the base guidance scale.
PhaseBCallBaseCfg ==
    KSamplerCall(patched_model, args.cfg, samples_out, args.denoise)
        @@ StepRange(FALSE, inject_at_step, args.steps, FALSE)

\* The arguments of the last Denoiser call (1001-1002).
PhaseBCall ==
    KSamplerCall(patched_model, args.cfg_noise, samples_out, args.denoise)
        @@ StepRange(FALSE, inject_at_step, args.steps, FALSE)

\* The injection pass issued together with the composite, the composite
\* first.
PhaseBAfterComposite ==
    /\ pc = "phaseB"
    /\ calls' = Append(Append(calls,
                  [fn |-> "composite", destination |-> samples_out.samples,
                   source |-> samples_out.samples, x |-> 0, y |-> 0,
                   mask |-> args.mask, multiplier |-> 8]), PhaseBCall)
    /\ result' = KSamplerResult(Len(KSamplerCalls) + 1, samples_out)[1]
    /\ pc' = "return"
    /\ error' = error
    /\ UNCHANGED <<args, inject_at_step, empty_latent, samples_base_sampler,
                   samples_base_sampler2, samples_out, samples_noise,
                   patched_model, cfg_function>>
    /\ UNCHANGED <<held, shares>>
    /\ UNCHANGED <<synthVars, saveVars>>

\* 1000-1002: the injection pass.
PhaseB ==
    /\ pc = "phaseB"
    /\ calls' = Append(calls, PhaseBCall)
    /\ \/ /\ result' = KSamplerResult(Len(KSamplerCalls) + 1, samples_out)[1]
          /\ pc' = "composite"
          /\ error' = error
       \/ /\ Raise("CollaboratorError")
          /\ UNCHANGED result
    /\ UNCHANGED <<args, inject_at_step, empty_latent, samples_base_sampler,
                   samples_base_sampler2, samples_out, samples_noise,
                   patched_model, cfg_function>>
    /\ UNCHANGED <<held, shares>>
    /\ UNCHANGED <<synthVars, saveVars>>

\* 1006-1007
Destination ==
    IF ~empty_latent THEN args.latent_image.samples
    ELSE samples_base_sampler2[1].samples

\* 1006-1007: destination is a clone, of the caller's samples or of the
\* fallback's output.
DestinationShares ==
    IF ~empty_latent THEN Copied("latent_image.samples") ELSE "none"

\* 1004-1010
Composite ==
    /\ pc = "composite"
    /\ IF args.mask # None
       THEN /\ result' = [samples |-> composite(Destination, result.samples, args.mask)]
            /\ shares' = [shares EXCEPT !.destination = DestinationShares]
            /\ held' = Store(held, shares'.destination, result'.samples)
            /\ calls' = Append(calls,
                  [fn |-> "composite", destination |-> Destination,
                   source |-> result.samples, x |-> 0, y |-> 0,
                   mask |-> args.mask, multiplier |-> 8])
       ELSE UNCHANGED <<result, calls, held, shares>>
    /\ pc' = "return"
    /\ UNCHANGED <<error, args, inject_at_step, empty_latent,
                   samples_base_sampler, samples_base_sampler2, samples_out,
                   samples_noise, patched_model, cfg_function>>
    /\ UNCHANGED <<synthVars, saveVars>>

\* 1012
Return ==
    /\ pc = "return"
    /\ pc' = "returned"
    /\ UNCHANGED <<error, args, samplerLocals, calls, cfg_function>>
    /\ UNCHANGED <<held, shares>>
    /\ UNCHANGED <<synthVars, saveVars>>

\* The call is over: the frame, and the clone only it referenced, are gone.
Exit ==
    /\ pc \in {"returned", "raised"}
    /\ pc' = "idle"
    /\ error' = None
    /\ args' = None
    /\ NoLocals
    /\ held' = None
    /\ shares' = None
    /\ calls' = <<>>
    /\ cfg_function' = [cfg_function EXCEPT !["clone"] = Unallocated]
    /\ UNCHANGED <<synthVars, saveVars>>

SamplerInit ==
    /\ pc = "idle"
    /\ error = None
    /\ args = None
    /\ inject_at_step = None
    /\ empty_latent = None
    /\ samples_base_sampler = None
    /\ samples_base_sampler2 = None
    /\ samples_out = None
    /\ samples_noise = None
    /\ patched_model = None
    /\ result = None
    /\ calls = <<>>
    /\ held = None
    /\ shares = None
    /\ cfg_function = [m \in ModelIds |-> IF m = "model" THEN None ELSE Unallocated]

SamplerNext ==
    \/ Call
    \/ ComputeInject
    \/ PhaseA
    \/ Fallback
    \/ SeedBase
    \/ CloneNoise
    \/ Reconcile
    \/ Blend
    \/ Patch
    \/ PhaseB
    \/ Composite
    \/ Return
    \/ Exit

(***************************************************************************)
(* YANCNoiseFromImage.do_it (yanc.py 1044-1113).                           *)
(*                                                                         *)
(* An image batch is [shape, data]: the shape (batch, height, width,       *)
(* channels), or (batch, channels, height, width) after movedim(-1, 1),    *)
(* and per image the values of NumSamples pixels.  Images are grey: the    *)
(* channels of a pixel hold one value.                                     *)
(***************************************************************************)
MaxBatch == 2
ImageSide == 2
ChannelCounts == {3, 4}
Ramp == [j \in 1..NumSamples |-> Rat(1, 2 + 2 * ((j + 1) % 2))]
Images == {Uniform(Zero), Uniform(One), Ramp}
ImageBatches == UNION {[1..n -> Images] : n \in 1..MaxBatch}
\* The entries of INPUT_TYPES' blend_mode list, and a value outside it.
BlendModes ==
    {"off", "multiply", "add", "overlay", "soft light", "hard light",
     "lighten", "darken", "screen"}
\* blend_rate, noise_blend_rate, saturation_correction, noise_intensity in
\* hundredths.
BlendRates == {25, 100}
NoiseBlendRates == {0, 45}
SaturationValues == {100, 50}
ResizeFactors == {0, 2}
Vaes == {[vae |-> "vae"]}
\* What torch.randn_like may draw, per image.
NoiseDraws == {Uniform(One), [j \in 1..NumSamples |-> Rat(2 * (j % 2) - 1, 1)]}
\* What the random displacement field of the elastic transform may do to
\* the kept pixels: mirror them, or push them all off the border.
Warps == {"mirror", "border"}

NfiRaise(e) ==
    /\ nfi_pc' = "raised"
    /\ nfi_error' = [type |-> e, at |-> nfi_pc]

NfiNoLocals ==
    /\ blended_image' = None
    /\ i' = None
    /\ noisy_image' = None
    /\ fill_value' = None
    /\ transformed_img' = None
    /\ resized_img' = None
    /\ nfi_result' = None
    /\ latent' = None

\* 1044-1055
NfiCall ==
    /\ nfi_pc = "idle"
    /\ \E batch \in ImageBatches, ch \in ChannelCounts, mode \in BlendModes,
          rate \in BlendRates, f \in ResizeFactors, nbr \in NoiseBlendRates,
          sat \in SaturationValues, vae \in Vaes \cup {None} :
          /\ nfi_args' =
                [image |-> [shape |-> <<Len(batch), ImageSide, ImageSide, ch>>,
                            data |-> batch],
                 magnitude |-> 210, smoothness |-> 3, noise_intensity |-> 100,
                 noise_resize_factor |-> f, noise_blend_rate |-> nbr,
                 saturation_correction |-> sat, blend_mode |-> mode,
                 blend_rate |-> rate, vae_opt |-> vae]
          /\ image' = nfi_args'.image
          /\ noise_blend_rate' = Div(Hundredths(nbr), Rat(225, 100))
    /\ nfi_pc' = "fold_start"
    /\ nfi_error' = None
    /\ NfiNoLocals
    /\ nfi_held' = [image |-> nfi_args'.image]
    /\ nfi_shares' = [image |-> "image", blended_image |-> "none"]
    /\ UNCHANGED <<nfi_calls, samplerVars, saveVars>>

\* 1057-1058: image[0:1]
NfiFoldStart ==
    /\ nfi_pc = "fold_start"
    /\ IF nfi_args.blend_mode # "off"
       THEN /\ blended_image' =
                  [shape |-> <<1, image.shape[2], image.shape[3], image.shape[4]>>,
                   data |-> <<image.data[1]>>]
            /\ i' = 1
            /\ nfi_shares' = [nfi_shares EXCEPT !.blended_image = nfi_shares.image]
            /\ nfi_pc' = "fold"
       ELSE /\ nfi_pc' = "noise"
            /\ UNCHANGED <<blended_image, i, nfi_shares>>
    /\ UNCHANGED <<nfi_error, nfi_args, noise_blend_rate, image, noisy_image,
                   fill_value, transformed_img, resized_img, nfi_result, latent,
                   nfi_calls, samplerVars, saveVars>>
    /\ UNCHANGED nfi_held

\* blend_images with the accumulator and the next image exchanged.
BlendTensorsReversed(t1, t2, blend_mode, blend_rate) ==
    [shape |-> t1.shape,
     data |-> <<[j \in 1..NumSamples |->
                   blend_images(t2[j], t1.data[1][j], blend_mode, blend_rate)]>>]

\* blend_images on two one-image tensors.
BlendTensors(t1, t2, blend_mode, blend_rate) ==
    [shape |-> t1.shape,
     data |-> <<[j \in 1..NumSamples |->
                   blend_images(t1.data[1][j], t2[j], blend_mode, blend_rate)]>>]

\* blend_images raises for this mode.
BlendRaises(blend_mode) == blend_images(Zero, Zero, blend_mode, Zero) = ValueError

\* 1060-1062 for the index i of range(1, image.size(0)); 1067 once the
\* range is exhausted.
NfiFoldBlend ==
    /\ nfi_pc = "fold"
    /\ IF i < image.shape[1]
       THEN IF BlendRaises(nfi_args.blend_mode)
            THEN /\ NfiRaise("ValueError")
                 /\ UNCHANGED <<blended_image, image, nfi_shares>>
            ELSE /\ blended_image' =
                       BlendTensors(blended_image, image.data[i + 1],
                                    nfi_args.blend_mode,
                                    Hundredths(nfi_args.blend_rate))
                 /\ nfi_shares' = [nfi_shares EXCEPT !.blended_image = "none"]
                 /\ nfi_pc' = "fold_norm"
                 /\ UNCHANGED <<nfi_error, image>>
       ELSE /\ image' = blended_image
            /\ nfi_shares' = [nfi_shares EXCEPT !.image = nfi_shares.blended_image]
            /\ nfi_pc' = "noise"
            /\ UNCHANGED <<nfi_error, blended_image>>
    /\ UNCHANGED <<nfi_args, noise_blend_rate, i, noisy_image, fill_value,
                   transformed_img, resized_img, nfi_result, latent, nfi_calls,
                   samplerVars, saveVars>>
    /\ UNCHANGED nfi_held

\* torch.max over the elements of a vector (NaN propagates).
RECURSIVE VectorMax(_, _)
VectorMax(v, n) == IF n = 1 THEN v[1] ELSE Max2(VectorMax(v, n - 1), v[n])

\* blended_image /= torch.max(blended_image)
Normalise(t) ==
    LET max_value == VectorMax(t.data[1], NumSamples)
    IN  [shape |-> t.shape,
         data |-> <<[j \in 1..NumSamples |-> Div(t.data[1][j], max_value)]>>]

\* 1064-1065, and the loop's increment.
NfiFoldNormalise ==
    /\ nfi_pc = "fold_norm"
    /\ blended_image' = Normalise(blended_image)
    /\ nfi_held' =
          IF nfi_shares.blended_image = "none" THEN nfi_held
          ELSE [nfi_held EXCEPT !.image.data[1] = blended_image'.data[1]]
    /\ i' = i + 1
    /\ nfi_pc' = "fold"
    /\ UNCHANGED <<nfi_error, nfi_args, noise_blend_rate, image, noisy_image,
                   fill_value, transformed_img, resized_img, nfi_result, latent,
                   nfi_calls, samplerVars, saveVars>>
    /\ UNCHANGED nfi_shares

\* movedim(-1, 1) and movedim(1, -1) of a shape.
ChannelsFirst(sh) == <<sh[1], sh[4], sh[2], sh[3]>>
ChannelsLast(sh) == <<sh[1], sh[3], sh[4], sh[2]>>

\* 1069-1070: torch.randn_like(image) * noise_intensity
NfiDrawNoise ==
    /\ nfi_pc = "noise"
    /\ \E d \in NoiseDraws :
          noisy_image' =
             [shape |-> ChannelsFirst(image.shape),
              data |-> [k \in 1..image.shape[1] |->
                          [j \in 1..NumSamples |->
                              Mul(d[j], Hundredths(nfi_args.noise_intensity))]]]
    /\ nfi_pc' = "fill"
    /\ UNCHANGED <<nfi_error, nfi_args, noise_blend_rate, blended_image, i,
                   image, fill_value, transformed_img, resized_img, nfi_result,
                   latent, nfi_calls, samplerVars, saveVars>>
    /\ UNCHANGED <<nfi_held, nfi_shares>>

RECURSIVE VectorSum(_, _)
VectorSum(v, n) == IF n = 0 THEN Zero ELSE Add(VectorSum(v, n - 1), v[n])

RECURSIVE BatchSum(_, _)
BatchSum(data, n) ==
    IF n = 0 THEN Zero
    ELSE Add(BatchSum(data, n - 1), VectorSum(data[n], NumSamples))

\* torch.mean(image[:, c, :, :]): over the batch, the same for every channel
\* of a grey image.
ChannelMean(t) ==
    Div(BatchSum(t.data, Len(t.data)), Rat(Len(t.data) * NumSamples, 1))

\* 1072-1079
NfiFillValue ==
    /\ nfi_pc = "fill"
    /\ image' = [shape |-> ChannelsFirst(image.shape), data |-> image.data]
    /\ fill_value' = <<ChannelMean(image), ChannelMean(image), ChannelMean(image)>>
    /\ nfi_pc' = "elastic"
    /\ UNCHANGED <<nfi_error, nfi_args, noise_blend_rate, blended_image, i,
                   noisy_image, transformed_img, resized_img, nfi_result,
                   latent, nfi_calls, samplerVars, saveVars>>
    /\ UNCHANGED <<nfi_held, nfi_shares>>

\* torchvision's ElasticTransform(alpha, sigma, fill)(img) for one drawn
\* displacement field: the shape is kept.
ElasticTransform(img, warp, fill) ==
    [shape |-> img.shape,
     data |-> [k \in 1..Len(img.data) |->
                 [j \in 1..NumSamples |->
                     IF warp = "mirror" THEN img.data[k][NumSamples + 1 - j]
                     ELSE fill[1]]]]

\* 1081-1083: the three-element fill does not fit an image of another
\* channel count.
NfiElastic ==
    /\ nfi_pc = "elastic"
    /\ nfi_calls' = Append(nfi_calls,
          [fn |-> "ElasticTransform", alpha |-> nfi_args.magnitude,
           sigma |-> nfi_args.smoothness, fill |-> fill_value])
    /\ IF image.shape[2] # Len(fill_value)
       THEN /\ NfiRaise("RuntimeError")
            /\ UNCHANGED transformed_img
       ELSE /\ \E warp \in Warps :
                  transformed_img' = ElasticTransform(image, warp, fill_value)
            /\ nfi_pc' = "saturation"
            /\ UNCHANGED nfi_error
    /\ UNCHANGED <<nfi_args, noise_blend_rate, blended_image, i, image,
                   noisy_image, fill_value, resized_img, nfi_result, latent,
                   samplerVars, saveVars>>
    /\ UNCHANGED <<nfi_held, nfi_shares>>

\* clamp(x, 0, 1)
Clamp01(x) ==
    IF IsNaN(x) THEN x ELSE IF Lt(x, Zero) THEN Zero ELSE IF Lt(One, x) THEN One ELSE x

\* torchvision's adjust_saturation on a grey pixel v: the blend
\* factor * v + (1 - factor) * gray of the pixel with its grayscale
\* gray = (0.2989 + 0.587 + 0.114) v, clamped to [0, 1].
adjust_saturation(img, saturation_factor) ==
    [shape |-> img.shape,
     data |-> [k \in 1..Len(img.data) |->
                 [j \in 1..NumSamples |->
                     Clamp01(Mul(img.data[k][j],
                                 Add(saturation_factor,
                                     Mul(Sub(One, saturation_factor),
                                         Rat(9999, 10000)))))]]]

\* 1085-1087
NfiSaturation ==
    /\ nfi_pc = "saturation"
    /\ IF nfi_args.saturation_correction # 100
       THEN /\ transformed_img' =
                  adjust_saturation(transformed_img,
                                    Hundredths(nfi_args.saturation_correction))
            /\ nfi_calls' = Append(nfi_calls,
                  [fn |-> "adjust_saturation",
                   saturation_factor |-> nfi_args.saturation_correction])
       ELSE UNCHANGED <<transformed_img, nfi_calls>>
    /\ nfi_pc' = "resize"
    /\ UNCHANGED <<nfi_error, nfi_args, noise_blend_rate, blended_image, i,
                   image, noisy_image, fill_value, resized_img, nfi_result,
                   latent, samplerVars, saveVars>>
    /\ UNCHANGED <<nfi_held, nfi_shares>>

\* T.Resize(size)(T.RandomResizedCrop(size // factor)(noisy_image)) for one
\* drawn crop: the crop around kept pixel c, blown up to the full size.
ResizedCrop(noise, c) ==
    [shape |-> ChannelsLast(noise.shape),
     data |-> [k \in 1..Len(noise.data) |-> Uniform(noise.data[k][c])]]

\* The else branch taking a resized crop all the same.
RawNoiseCropped(noise) == ResizedCrop(noise, 1)

\* 1099: noisy_image.movedim(1, -1), the noise as drawn.
RawNoise(noise) ==
    [shape |-> ChannelsLast(noise.shape), data |-> noise.data]

\* 1089-1099
NfiResize ==
    /\ nfi_pc = "resize"
    /\ IF nfi_args.noise_resize_factor > 0
       THEN /\ \E c \in 1..NumSamples : resized_img' = ResizedCrop(noisy_image, c)
            /\ nfi_calls' = nfi_calls \o
                  <<[fn |-> "RandomResizedCrop",
                     size |-> <<image.shape[3] \div nfi_args.noise_resize_factor,
                                image.shape[4] \div nfi_args.noise_resize_factor>>],
                    [fn |-> "Resize", size |-> <<image.shape[3], image.shape[4]>>]>>
       ELSE /\ resized_img' = RawNoise(noisy_image)
            /\ UNCHANGED nfi_calls
    /\ nfi_pc' = "sum"
    /\ UNCHANGED <<nfi_error, nfi_args, noise_blend_rate, blended_image, i,
                   image, noisy_image, fill_value, transformed_img, nfi_result,
                   latent, samplerVars, saveVars>>
    /\ UNCHANGED <<nfi_held, nfi_shares>>

\* The sum with the noise taken whole, the rate dropped.
NoiseSumUnscaled(transformed, resized, rate) ==
    [k \in 1..Len(resized.data) |->
        [j \in 1..NumSamples |->
            Add(transformed.data[k][j], resized.data[k][j])]]

\* transformed + resized_img * noise_blend_rate, elementwise.
NoiseSum(transformed, resized, rate) ==
    [k \in 1..Len(resized.data) |->
        [j \in 1..NumSamples |->
            Add(transformed.data[k][j], Mul(resized.data[k][j], rate))]]

\* 1101-1106: a batch of one is squeezed and permuted whole and broadcast
\* against resized_img; a larger batch is permuted and cut to 3 channels.
NfiSum ==
    /\ nfi_pc = "sum"
    /\ IF image.shape[1] = 1
       THEN /\ nfi_result' =
                  [shape |-> <<1, image.shape[3], image.shape[4], image.shape[2]>>,
                   data |-> NoiseSum(transformed_img, resized_img, noise_blend_rate)]
            /\ nfi_pc' = "encode"
            /\ UNCHANGED nfi_error
       ELSE IF resized_img.shape[4] \in {1, 3}
            THEN /\ nfi_result' =
                       [shape |-> <<image.shape[1], image.shape[3], image.shape[4], 3>>,
                        data |-> NoiseSum(transformed_img, resized_img, noise_blend_rate)]
                 /\ nfi_pc' = "encode"
                 /\ UNCHANGED nfi_error
            ELSE /\ NfiRaise("RuntimeError")
                 /\ UNCHANGED nfi_result
    /\ UNCHANGED <<nfi_args, noise_blend_rate, blended_image, i, image,
                   noisy_image, fill_value, transformed_img, resized_img,
                   latent, nfi_calls, samplerVars, saveVars>>
    /\ UNCHANGED <<nfi_held, nfi_shares>>

\* result[:, :, :, :3]
FirstThreeChannels(t) ==
    [shape |-> <<t.shape[1], t.shape[2], t.shape[3],
                 IF t.shape[4] < 3 THEN t.shape[4] ELSE 3>>,
     data |-> t.data]

\* The codec called whether one was supplied or not.
EncodesAlways == TRUE

\* if vae_opt is not None (1110)
Encodes == nfi_args.vae_opt # None

\* 1108-1111: the codec returns or raises.
NfiEncode ==
    /\ nfi_pc = "encode"
    /\ IF Encodes
       THEN /\ nfi_calls' = Append(nfi_calls,
                  [fn |-> "encode", pixels |-> FirstThreeChannels(nfi_result)])
            /\ \/ /\ latent' = [encoded |-> FirstThreeChannels(nfi_result)]
                  /\ nfi_pc' = "return"
                  /\ UNCHANGED nfi_error
               \/ /\ NfiRaise("CollaboratorError")
                  /\ UNCHANGED latent
       ELSE /\ latent' = None
            /\ nfi_pc' = "return"
            /\ UNCHANGED <<nfi_calls, nfi_error>>
    /\ UNCHANGED <<nfi_args, noise_blend_rate, blended_image, i, image,
                   noisy_image, fill_value, transformed_img, resized_img,
                   nfi_result, samplerVars, saveVars>>
    /\ UNCHANGED <<nfi_held, nfi_shares>>

\* 1113: (result, {"samples": latent})
NfiReturn ==
    /\ nfi_pc = "return"
    /\ nfi_pc' = "returned"
    /\ UNCHANGED <<nfi_error, nfi_args, synthLocals, nfi_calls, samplerVars, saveVars>>
    /\ UNCHANGED <<nfi_held, nfi_shares>>

NfiExit ==
    /\ nfi_pc \in {"returned", "raised"}
    /\ nfi_pc' = "idle"
    /\ nfi_error' = None
    /\ nfi_args' = None
    /\ image' = None
    /\ noise_blend_rate' = None
    /\ NfiNoLocals
    /\ nfi_held' = None
    /\ nfi_shares' = None
    /\ nfi_calls' = <<>>
    /\ UNCHANGED <<samplerVars, saveVars>>

SynthInit ==
    /\ nfi_pc = "idle"
    /\ nfi_error = None
    /\ nfi_args = None
    /\ noise_blend_rate = None
    /\ blended_image = None
    /\ i = None
    /\ image = None
    /\ noisy_image = None
    /\ fill_value = None
    /\ transformed_img = None
    /\ resized_img = None
    /\ nfi_result = None
    /\ latent = None
    /\ nfi_calls = <<>>
    /\ nfi_held = None
    /\ nfi_shares = None

SynthNext ==
    \/ NfiCall
    \/ NfiFoldStart
    \/ NfiFoldBlend
    \/ NfiFoldNormalise
    \/ NfiDrawNoise
    \/ NfiFillValue
    \/ NfiElastic
    \/ NfiSaturation
    \/ NfiResize
    \/ NfiSum
    \/ NfiEncode
    \/ NfiReturn
    \/ NfiExit

(***************************************************************************)
(* YANCSaveImage.do_it (yanc.py 555-642).  A name is the sequence of its   *)
(* characters; the entries of the output folder are the state the node     *)
(* shares with everything else that writes there.                          *)
(***************************************************************************)
MaxImages == 2
MaxFiles == 4

DigitChars == <<"0", "1", "2", "3", "4", "5", "6", "7", "8", "9">>

\* str(n) for n >= 0
RECURSIVE Str(_)
Str(n) ==
    IF n < 10 THEN <<DigitChars[n + 1]>>
    ELSE Str(n \div 10) \o <<DigitChars[(n % 10) + 1]>>

\* The width of the counter field in f"{counter:05}" (597).
CounterWidth == 5

\* f"{counter:05}": zero-padded to the width, longer numbers in full.
FormatCounter(counter) ==
    LET d == Str(counter)
    IN  IF Len(d) >= CounterWidth THEN d
        ELSE [k \in 1..(CounterWidth - Len(d)) |-> "0"] \o d

\* s.isdigit(): not empty and digits only.
isdigit(s) == Len(s) > 0 /\ \A k \in 1..Len(s) : \E d \in 1..10 : s[k] = DigitChars[d]

\* int(s) of a string of digits
RECURSIVE int(_)
int(s) ==
    IF s = <<>> THEN 0
    ELSE 10 * int(SubSeq(s, 1, Len(s) - 1))
           + (CHOOSE d \in 0..9 : DigitChars[d + 1] = s[Len(s)])

\* s.startswith(p)
startswith(s, p) == Len(s) >= Len(p) /\ SubSeq(s, 1, Len(p)) = p

\* name[len(prefix) + 1:-4]: what stands between "prefix_" and the last
\* four characters.
CounterField(name, prefix) == SubSeq(name, Len(prefix) + 2, Len(name) - 4)

\* filename.replace("%batch_num%", str(batch_number)), the placeholder being
\* one element of the sequence (577-578).
RECURSIVE FilenameWithBatchNum(_, _)
FilenameWithBatchNum(name, n) ==
    IF name = <<>> THEN <<>>
    ELSE (IF Head(name) = "%batch_num%" THEN Str(n) ELSE <<Head(name)>>)
            \o FilenameWithBatchNum(Tail(name), n)

\* The filter of 583-588 over os.listdir(full_output_folder).
FilteredFilenames(listing, prefix) ==
    {name \in listing :
        /\ startswith(name, prefix \o <<"_">>)
        /\ isdigit(CounterField(name, prefix))}

SetMax(S) == CHOOSE m \in S : \A n \in S : n <= m

\* The counter taken as the number of matching entries plus one.
NextCounterByCount(listing, prefix) ==
    Cardinality(FilteredFilenames(listing, prefix)) + 1

\* 580-595: 1, or one more than the largest counter among the matching
\* entries of a folder that has entries.
NextCounter(listing, prefix) ==
    IF listing # {} /\ FilteredFilenames(listing, prefix) # {}
    THEN SetMax({int(CounterField(name, prefix)) :
                    name \in FilteredFilenames(listing, prefix)}) + 1
    ELSE 1

Extensions == {<<"p", "n", "g">>, <<"j", "p", "g">>}

\* f"{filename_with_batch_num}_{counter:05}.{extension}" (597)
CounterFile(prefix, counter, extension) ==
    prefix \o <<"_">> \o FormatCounter(counter) \o <<".">> \o extension

\* f"{filename_opt}.{extension}" (600)
NamedFile(name, extension) == name \o <<".">> \o extension

\* Base names get_save_image_path hands back, with and without the
\* placeholder of the batch number.
Filenames == {<<"a">>, <<"a", "%batch_num%">>}

\* The caller's own file name, when given: absent, empty, or one that reads
\* like a counter file.
FilenameOpts ==
    {None, [name |-> <<>>], [name |-> <<"a", "_", "0", "0", "0", "0", "1">>]}

\* not filename_opt (575)
Falsy(opt) == opt = None \/ opt.name = <<>>

\* Entries other programs leave in the folder: a counter file of the other
\* extension, one with a short counter, ComfyUI's own SaveImage name with
\* its trailing underscore, and a counter file of the longer prefix a_1.
ForeignFiles ==
    {<<"a", "_", "0", "0", "0", "0", "3", ".", "j", "p", "g">>,
     <<"a", "_", "7", ".", "p", "n", "g">>,
     <<"a", "_", "0", "0", "0", "0", "9", "_", ".", "p", "n", "g">>,
     <<"a", "_", "1", "_", "0", "0", "0", "0", "5", ".", "p", "n", "g">>}

SaveRaise(msg) ==
    /\ save_pc' = "raised"
    /\ save_error' = [type |-> "Exception", msg |-> msg]

\* The host invokes the node; 557-568 up to the loop.
SaveCall ==
    /\ save_pc = "idle"
    /\ \E n \in 1..MaxImages, base \in Filenames, ext \in Extensions,
          warn \in BOOLEAN, opt \in FilenameOpts :
          /\ Cardinality(output_folder) + n <= MaxFiles
          /\ save_args' = [images |-> n, overwrite_warning |-> warn,
                           extension |-> ext, filename_opt |-> opt]
          /\ filename' = base
    /\ results' = <<>>
    /\ batch_number' = 0
    /\ save_pc' = "image"
    /\ save_error' = None
    /\ UNCHANGED output_folder
    /\ UNCHANGED <<samplerVars, synthVars>>

\* The name the image at batch_number is saved under (575-600); the
\* filename_opt branch raises for more than one image.
File ==
    IF Falsy(save_args.filename_opt)
    THEN LET filename_with_batch_num == FilenameWithBatchNum(filename, batch_number)
         IN  CounterFile(filename_with_batch_num,
                         NextCounter(output_folder, filename_with_batch_num),
                         save_args.extension)
    ELSE NamedFile(save_args.filename_opt.name, save_args.extension)

\* 570-640: one pass of the loop.
SaveImage ==
    /\ save_pc = "image"
    /\ batch_number < save_args.images
    /\ IF ~Falsy(save_args.filename_opt) /\ save_args.images # 1
       THEN /\ SaveRaise("Multiple images and filename detected")
            /\ UNCHANGED <<output_folder, results, batch_number>>
       ELSE IF File \in output_folder /\ save_args.overwrite_warning
       THEN /\ SaveRaise("Filename already exists.")
            /\ UNCHANGED <<output_folder, results, batch_number>>
       ELSE /\ output_folder' = output_folder \cup {File}
            /\ results' = Append(results,
                  [filename |-> File, subfolder |-> "", type |-> "output"])
            /\ batch_number' = batch_number + 1
            /\ UNCHANGED <<save_pc, save_error>>
    /\ UNCHANGED <<save_args, filename>>
    /\ UNCHANGED <<samplerVars, synthVars>>

\* 642
SaveReturn ==
    /\ save_pc = "image"
    /\ batch_number = save_args.images
    /\ save_pc' = "returned"
    /\ UNCHANGED <<save_error, save_args, filename, batch_number, results,
                   output_folder>>
    /\ UNCHANGED <<samplerVars, synthVars>>

\* The call is over; what it wrote stays in the folder.
SaveExit ==
    /\ save_pc \in {"returned", "raised"}
    /\ save_pc' = "idle"
    /\ save_error' = None
    /\ save_args' = None
    /\ filename' = None
    /\ batch_number' = None
    /\ results' = None
    /\ UNCHANGED output_folder
    /\ UNCHANGED <<samplerVars, synthVars>>

\* Between two invocations another program leaves a file in the folder.
ForeignWrite ==
    /\ save_pc = "idle"
    /\ Cardinality(output_folder) < MaxFiles
    /\ \E name \in ForeignFiles \ output_folder :
          output_folder' = output_folder \cup {name}
    /\ UNCHANGED <<save_pc, save_error, save_args, filename, batch_number,
                   results>>
    /\ UNCHANGED <<samplerVars, synthVars>>

SaveInit ==
    /\ save_pc = "idle"
    /\ save_error = None
    /\ save_args = None
    /\ filename = None
    /\ batch_number = None
    /\ results = None
    /\ output_folder = {}

SaveNext ==
    \/ SaveCall
    \/ SaveImage
    \/ SaveReturn
    \/ SaveExit
    \/ ForeignWrite

(***************************************************************************)
(* Specifications: the nodes, each invoked again and again by the host,    *)
(* one invocation at a time.                                               *)
(***************************************************************************)
Init == SamplerInit /\ SynthInit /\ SaveInit

SamplerSpec == Init /\ [][SamplerNext]_vars

SynthSpec == Init /\ [][SynthNext]_vars

SaveSpec == Init /\ [][SaveNext]_vars

Next == SamplerNext \/ SynthNext \/ SaveNext

\* The host runs one node at a time, each invocation to its end.
HostNext ==
    \/ nfi_pc = "idle" /\ SamplerNext
    \/ pc = "idle" /\ SynthNext

HostSpec == Init /\ [][HostNext]_vars

Spec == Init /\ [][Next]_vars

(***************************************************************************)
(* Where an invocation of the sampler stands.                              *)
(***************************************************************************)
Order ==
    <<"idle", "inject", "phaseA", "fallback", "seed", "noise", "reconcile",
      "blend", "patch", "phaseB", "composite", "return", "returned">>

Index(label) == CHOOSE k \in 1..Len(Order) : Order[k] = label

\* The statement control is at, or the one that raised.
Position == IF pc = "raised" THEN error.at ELSE pc

\* The statement group at label has run to its end.
Past(label) == Index(Position) > Index(label)

\* The statement group at label has run, to its end or into a raise there.
Entered(label) == Past(label) \/ (pc = "raised" /\ error.at = label)

Issued(fn) == \E k \in 1..Len(calls) : calls[k].fn = fn

LastKSamplerCall == KSamplerCalls[Len(KSamplerCalls)]

AllZero(t) == \A j \in 1..NumSamples : t.data[j] = Zero

(***************************************************************************)
(* The claims about the sampler, under SamplerSpec.                        *)
(***************************************************************************)
\* C1: once computed, inject_at_step is the integer nearest to
\* steps * inject_time, the even one of two equally near; steps = 30 at 0.5
\* gives 15 and steps = 10 at 0.33 gives 3.
C1_InjectAtStepIsRounded ==
    Past("inject") =>
        LET off == 100 * inject_at_step - args.steps * args.inject_time
        IN  /\ -50 <= off /\ off <= 50
            /\ (off \in {-50, 50} => inject_at_step % 2 = 0)
            /\ (args.steps = 30 /\ args.inject_time = 50 => inject_at_step = 15)
            /\ (args.steps = 10 /\ args.inject_time = 33 => inject_at_step = 3)

C1_Witness ==
    /\ pc = "phaseA"
    /\ args.steps = 10 /\ args.inject_time = 33
    /\ inject_at_step = 3

\* C2 (as claimed): with a mask, the empty-latent branch (the flag, and the
\* extra full denoise) is taken exactly when every value of latent_image is
\* zero.
C2_EmptyBranchIffAllZero ==
    (Past("inject") /\ args.mask # None) =>
        /\ empty_latent <=> AllZero(args.latent_image.samples)
        /\ Past("fallback") =>
              (Len(KSamplerCalls) >= 2 <=> AllZero(args.latent_image.samples))

\* C3: the first collaborator call of an invocation is the Denoiser's base
\* pass: the caller's model (no cfg function on it), cfg, the caller's
\* latent_image, steps 0 to inject_at_step, force_full_denoise set.
C3_PhaseAIsFirstCall ==
    /\ Entered("phaseA") => Len(calls) >= 1
    /\ Len(calls) >= 1 =>
          LET c == calls[1]
          IN  /\ c.fn = "common_ksampler"
              /\ c.model = args.model
              /\ cfg_function[c.model] = None
              /\ c.cfg = args.cfg
              /\ c.latent = args.latent_image
              /\ "start_step" \in DOMAIN c
              /\ c.start_step = 0
              /\ c.last_step = inject_at_step
              /\ c.force_full_denoise = TRUE

C3_Witness ==
    /\ pc = "fallback"
    /\ Len(calls) = 1
    /\ calls[1].last_step = 15
    /\ calls[1].force_full_denoise

\* C4: the last Denoiser call of an invocation that reaches the injection
\* pass is made on the blended latent samples_out with cfg_noise, steps
\* inject_at_step to steps, force_full_denoise and disable_noise off, and
\* with the patched clone if patch() was called, the caller's model if not.
C4_PhaseBIsLastCall ==
    Entered("phaseB") =>
        LET c == LastKSamplerCall
        IN  /\ c.latent = samples_out
            /\ c.cfg = args.cfg_noise
            /\ "start_step" \in DOMAIN c
            /\ c.start_step = inject_at_step
            /\ c.last_step = args.steps
            /\ c.force_full_denoise = FALSE
            /\ c.disable_noise = FALSE
            /\ IF Issued("patch")
               THEN /\ c.model # args.model
                    /\ cfg_function[c.model] # None
               ELSE c.model = args.model

C4_Witness ==
    /\ pc = "returned"
    /\ Issued("patch")
    /\ LastKSamplerCall.start_step = 5
    /\ LastKSamplerCall.last_step = 10

\* C5: the model of the injection pass carries the rescale function, with
\* multiplier 0.65, exactly when round(cfg_noise, 1) > 8.0, which on the
\* hundredths grid is cfg_noise >= 8.05: 8.05 patches, 8.0 does not.
C5_PatchIffRoundedAboveEight ==
    /\ Past("patch") =>
          /\ patched_model # args.model <=> args.cfg_noise >= 805
          /\ Issued("patch") <=> args.cfg_noise >= 805
          /\ patched_model # args.model =>
                cfg_function[patched_model] =
                   [fn |-> "rescale_cfg", multiplier |-> 65]
          /\ args.cfg_noise = 805 => patched_model # args.model
          /\ args.cfg_noise = 800 => patched_model = args.model
    /\ Entered("phaseB") => LastKSamplerCall.model = patched_model

C5_Witness ==
    /\ pc = "composite"
    /\ args.cfg_noise = 805
    /\ patched_model = "clone"
    /\ LastKSamplerCall.model = "clone"

\* C6 (as claimed): without latent_noise and without a mask the invocation
\* does not raise, and returns after exactly two Denoiser calls, the base
\* pass and the injection pass, the latter on Phase A's own output.
C6_AbsentNoiseStillSamples ==
    (pc # "idle" /\ args.latent_noise \in {None, Omitted} /\ args.mask = None) =>
        /\ pc = "raised" => error.type = "CollaboratorError"
        /\ pc = "returned" =>
              /\ Len(KSamplerCalls) = 2
              /\ LastKSamplerCall.latent.samples = KSamplerCalls[1].latent.samples

\* C7 (as claimed): without a mask, and with a noise input that is absent
\* or fits the latent in batch and channels, the invocation raises only when the Denoiser fails,
\* never calls the full-denoise fallback, never calls the composite, and
\* returns what the injection pass, the second and last Denoiser call,
\* returned.
C7_NoMaskNeverRaises ==
    (/\ pc # "idle"
     /\ args.mask = None
     /\ \/ args.latent_noise \in {None, Omitted}
        \/ \A k \in 1..2 :
              \/ args.latent_noise.samples.shape[k] = args.latent_image.samples.shape[k]
              \/ 1 \in {args.latent_noise.samples.shape[k],
                        args.latent_image.samples.shape[k]}) =>
        /\ pc = "raised" => error.type = "CollaboratorError"
        /\ \A k \in 1..Len(KSamplerCalls) : "start_step" \in DOMAIN KSamplerCalls[k]
        /\ ~Issued("composite")
        /\ pc = "returned" =>
              /\ Len(KSamplerCalls) = 2
              /\ result.samples.shape = samples_out.samples.shape
              /\ \A j \in 1..NumSamples :
                    result.samples.data[j] = Rat(10 * Len(KSamplerCalls) + j, 1)

\* C8: after reconciliation the noise tensor has latent_noise's batch and
\* channel counts and the base latent's height and width; it went through
\* the bicubic resample when the spatial sizes differed, and is latent_noise
\* unchanged, with no resample, when the shapes were equal.
C8_NoiseReconciledToBaseSize ==
    Past("reconcile") =>
        LET given == args.latent_noise.samples
            target == samples_base_sampler.samples.shape
        IN  /\ samples_noise.shape =
                  <<given.shape[1], given.shape[2], target[3], target[4]>>
            /\ <<given.shape[3], given.shape[4]>> # <<target[3], target[4]>> =>
                  \E k \in 1..Len(calls) :
                     /\ calls[k].fn = "common_upscale"
                     /\ calls[k].samples = given
                     /\ calls[k].upscale_method = "bicubic"
            /\ given.shape = target =>
                  /\ samples_noise = given
                  /\ ~Issued("common_upscale")

C8_Witness ==
    /\ pc = "blend"
    /\ args.latent_noise.samples.shape = <<2, 4, 3, 3>>
    /\ samples_noise.shape = <<2, 4, 2, 3>>
    /\ Issued("common_upscale")

(***************************************************************************)
(* The claims about the synthesizer, under SynthSpec.                      *)
(***************************************************************************)
\* The documented blend of A = a / p over B = b / q, as a fraction of
\* integers, by mode.
DocumentedBlend(mode, a, p, b, q) ==
    CASE mode = "multiply" -> <<a * b, p * q>>
      [] mode = "add" -> <<a * q + b * p, p * q>>
      [] mode = "overlay" ->
            IF 2 * a < p THEN <<2 * a * b, p * q>>
            ELSE <<p * q - 2 * (p - a) * (q - b), p * q>>
      [] mode = "soft light" -> <<2 * a * b * p + a * a * (q - 2 * b), p * p * q>>
      [] mode = "hard light" -> <<2 * a * b + (p - 2 * a) * (q - b), p * q>>
      [] mode = "lighten" -> IF a * q >= b * p THEN <<a, p>> ELSE <<b, q>>
      [] mode = "darken" -> IF a * q <= b * p THEN <<a, p>> ELSE <<b, q>>

\* (1 - r) * A + r * blend(A, B) for r = n / 100, in lowest terms, over the
\* least common denominator of A and the blend.
DocumentedOutput(mode, n, A, B) ==
    LET m == DocumentedBlend(mode, A[1], A[2], B[1], B[2])
        g == Gcd(Abs(m[1]), m[2])
        bn == m[1] \div g
        bd == m[2] \div g
        h == Gcd(n, 100)
        rn == n \div h
        rd == 100 \div h
        c == Gcd(A[2], bd)
    IN  Rat((rd - rn) * A[1] * (bd \div c) + rn * bn * (A[2] \div c),
            rd * (A[2] \div c) * bd)

\* C9: every fold step leaves in blended_image, element by element,
\* (1 - r) * A + r * blend(A, B) for the accumulator A, the next image B and
\* the documented blend of the mode, whenever A and B are numbers.
C9_BlendMatchesClosedForm ==
    [][(nfi_pc = "fold" /\ nfi_pc' = "fold_norm") =>
          \A j \in 1..NumSamples :
             LET A == blended_image.data[1][j]
                 B == image.data[i + 1][j]
             IN  (IsFinite(A) /\ IsFinite(B)) =>
                    blended_image'.data[1][j] =
                       DocumentedOutput(nfi_args.blend_mode,
                                        nfi_args.blend_rate, A, B)]_vars

\* Overlay of the ramp over itself at rate 0.25: 0.75 * 1/4 + 0.25 * 1/8.
C9_Witness ==
    /\ nfi_pc = "fold_norm"
    /\ nfi_args.blend_mode = "overlay"
    /\ nfi_args.blend_rate = 25
    /\ nfi_args.image.data[1][2] = <<1, 4>>
    /\ nfi_args.image.data[2][2] = <<1, 4>>
    /\ blended_image.data[1][2] = <<7, 32>>

\* The values of blend_mode the node's interface lists.
SupportedModes ==
    {"off", "multiply", "add", "overlay", "soft light", "hard light",
     "lighten", "darken"}

\* C10 (as claimed): with a blend_mode outside the supported values the
\* invocation gets no further than the fold, where it raises ValueError,
\* whatever the batch size; no noise is drawn and no result is produced.
C10_UnsupportedModeRaisesAtOnce ==
    (nfi_pc # "idle" /\ nfi_args.blend_mode \notin SupportedModes) =>
        /\ nfi_pc \in {"fold_start", "fold", "raised"}
        /\ nfi_pc = "raised" => nfi_error.type = "ValueError"
        /\ noisy_image = None
        /\ nfi_result = None

(***************************************************************************)
(* Further claims about the sampler, under SamplerSpec.                    *)
(***************************************************************************)
\* C11: the caller's model never carries a sampler cfg function: patch()
\* sets the rescale function on the clone only, and the base pass and the
\* fallback pass are made with the caller's model, in this invocation and in
\* every later one.
C11_PatchLeavesModelUntouched ==
    /\ cfg_function["model"] = None
    /\ pc # "idle" => args.model = "model"
    /\ \A k \in 1..Len(KSamplerCalls) :
          (k = 1 \/ "start_step" \notin DOMAIN KSamplerCalls[k])
             => /\ KSamplerCalls[k].model = args.model
                /\ cfg_function[KSamplerCalls[k].model] = None

C11_Witness ==
    /\ pc = "returned"
    /\ Issued("patch")
    /\ Len(KSamplerCalls) = 3
    /\ cfg_function["clone"] = [fn |-> "rescale_cfg", multiplier |-> 65]
    /\ cfg_function["model"] = None

\* C12: a Denoiser failure leaves do_it as the exception it is: the
\* invocation has raised at the failed pass, the failed call is the last call
\* issued and was issued once, no composite was issued, and no result is
\* bound or returned.
C12_DenoiserFailurePropagates ==
    (error # None /\ error.type = "CollaboratorError") =>
        /\ pc = "raised"
        /\ error.at \in {"phaseA", "fallback", "phaseB"}
        /\ Len(calls) >= 1
        /\ calls[Len(calls)].fn = "common_ksampler"
        /\ \A k \in 1..Len(calls) - 1 : calls[k] # calls[Len(calls)]
        /\ Len(KSamplerCalls) =
              (IF error.at = "phaseA" THEN 1
               ELSE IF error.at = "fallback" THEN 2
               ELSE IF NeedsFallback THEN 3 ELSE 2)
        /\ ~Issued("composite")
        /\ result = None

\* The fallback pass fails after the base pass succeeded.
C12_Witness ==
    /\ pc = "raised"
    /\ error = [type |-> "CollaboratorError", at |-> "fallback"]
    /\ Len(calls) = 2
    /\ calls[1] = PhaseACall
    /\ calls[2] = FallbackCall
    /\ samples_base_sampler2 = None

(***************************************************************************)
(* Where an invocation of the synthesizer stands.                          *)
(***************************************************************************)
NfiOrder ==
    <<"idle", "fold_start", "fold", "fold_norm", "noise", "fill", "elastic",
      "saturation", "resize", "sum", "encode", "return", "returned">>

NfiIndex(label) == CHOOSE k \in 1..Len(NfiOrder) : NfiOrder[k] = label

NfiPosition == IF nfi_pc = "raised" THEN nfi_error.at ELSE nfi_pc

\* The statement group at label has run to its end.
NfiPast(label) == NfiIndex(NfiPosition) > NfiIndex(label)

NfiIssued(fn) == \E k \in 1..Len(nfi_calls) : nfi_calls[k].fn = fn

(***************************************************************************)
(* Further claims about the synthesizer, under SynthSpec.                  *)
(***************************************************************************)
\* C13: for one image, blend_mode "off", noise_resize_factor 0 and
\* noise_blend_rate 0, the image returned is, element for element and in
\* channels-last layout, the elastic warp of the input, put through the
\* saturation adjustment when saturation_correction is not 1.0; the noise
\* drawn adds nothing.
C13_ZeroRateReturnsWarpedImage ==
    (/\ NfiPast("sum")
     /\ nfi_args.image.shape[1] = 1
     /\ nfi_args.blend_mode = "off"
     /\ nfi_args.noise_resize_factor = 0
     /\ nfi_args.noise_blend_rate = 0) =>
        /\ nfi_result.data = transformed_img.data
        /\ nfi_result.shape = ChannelsLast(transformed_img.shape)
        /\ \E warp \in Warps :
              LET warped == ElasticTransform(image, warp, fill_value)
              IN  transformed_img =
                     IF nfi_args.saturation_correction # 100
                     THEN adjust_saturation(warped,
                             Hundredths(nfi_args.saturation_correction))
                     ELSE warped
        /\ image.data = nfi_args.image.data

C13_Witness ==
    /\ nfi_pc = "returned"
    /\ nfi_args.image.shape[1] = 1
    /\ nfi_args.blend_mode = "off"
    /\ nfi_args.noise_resize_factor = 0
    /\ nfi_args.noise_blend_rate = 0
    /\ nfi_args.saturation_correction = 50
    /\ noisy_image.data[1][1] # Zero
    /\ nfi_result.data = transformed_img.data
    /\ transformed_img.data[1][1] = <<19999, 80000>>

\* C14: with noise_resize_factor 0 no crop and no resize is called and
\* resized_img holds, element for element, the noise drawn (noise_intensity
\* times one of the draws), in channels-last layout; the crop and the resize
\* are called, once each and in this order, exactly when the factor is
\* positive.
C14_ZeroFactorKeepsRawNoise ==
    NfiPast("resize") =>
        /\ nfi_args.noise_resize_factor = 0 =>
              /\ resized_img.data = noisy_image.data
              /\ resized_img.shape = ChannelsLast(noisy_image.shape)
              /\ \E d \in NoiseDraws :
                    \A k \in 1..Len(resized_img.data) :
                       \A j \in 1..NumSamples :
                          resized_img.data[k][j] =
                             Mul(d[j], Hundredths(nfi_args.noise_intensity))
        /\ NfiIssued("RandomResizedCrop") <=> nfi_args.noise_resize_factor > 0
        /\ NfiIssued("Resize") <=> nfi_args.noise_resize_factor > 0
        /\ nfi_args.noise_resize_factor > 0 =>
              \E k \in 1..Len(nfi_calls) - 1 :
                 /\ nfi_calls[k].fn = "RandomResizedCrop"
                 /\ nfi_calls[k + 1].fn = "Resize"
                 /\ \A m \in 1..Len(nfi_calls) :
                       nfi_calls[m].fn \in {"RandomResizedCrop", "Resize"}
                          => m \in {k, k + 1}

\* The alternating draw reaches the sum uncropped.
C14_Witness ==
    /\ nfi_pc = "sum"
    /\ nfi_args.noise_resize_factor = 0
    /\ noisy_image.data[1][1] # noisy_image.data[1][2]
    /\ resized_img.data = noisy_image.data
    /\ ~NfiIssued("Resize")

\* C15 (as claimed): for an image of three or more channels and a supported
\* blend_mode, whatever the batch size, the invocation ends, unless the
\* codec fails, by returning an image of exactly 3 channels.
C15_OutputHasThreeChannels ==
    (/\ nfi_pc \in {"returned", "raised"}
     /\ nfi_args.image.shape[4] >= 3
     /\ nfi_args.blend_mode \in SupportedModes) =>
        /\ nfi_pc = "raised" => nfi_error.type = "CollaboratorError"
        /\ nfi_pc = "returned" => nfi_result.shape[4] = 3

\* The encode calls issued so far.
EncodeCalls == SelectSeq(nfi_calls, LAMBDA c : c.fn = "encode")

\* C16: no encode is called before the noise field is summed; once the
\* encode statement has run, encode was called exactly once when a codec
\* was supplied, on the noise field cut to its first 3 channels, and its
\* output is the latent returned; without a codec encode was never called
\* and the latent is None.
C16_EncodeOnceIffCodec ==
    /\ ~NfiPast("sum") => Len(EncodeCalls) = 0
    /\ (NfiPast("encode") \/ (nfi_pc = "raised" /\ nfi_error.at = "encode")) =>
          IF nfi_args.vae_opt # None
          THEN /\ Len(EncodeCalls) = 1
               /\ EncodeCalls[1].pixels.data = nfi_result.data
               /\ EncodeCalls[1].pixels.shape =
                     <<nfi_result.shape[1], nfi_result.shape[2],
                       nfi_result.shape[3], 3>>
               /\ nfi_pc # "raised" => latent = [encoded |-> EncodeCalls[1].pixels]
          ELSE /\ Len(EncodeCalls) = 0
               /\ latent = None
               /\ nfi_pc # "raised"

C16_Witness ==
    /\ nfi_pc = "returned"
    /\ nfi_args.vae_opt # None
    /\ Len(EncodeCalls) = 1
    /\ latent.encoded.shape[4] = 3
    /\ latent.encoded.data = nfi_result.data

(***************************************************************************)
(* Claims about the sampler's branches, under SamplerSpec.                 *)
(***************************************************************************)
\* C18 (as claimed): once the fallback statement has run, the full denoise
\* (no step range, denoise 1.0 whatever the caller's denoise, the caller's
\* model, seed, steps, cfg and latent_image) has been called, once, exactly
\* when a mask is supplied and every value of latent_image is zero.
C18_FallbackIffMaskAndEmpty ==
    Entered("fallback") =>
        LET full == SelectSeq(KSamplerCalls, LAMBDA c : "start_step" \notin DOMAIN c)
        IN  /\ Len(full) <= 1
            /\ Len(full) = 1 <=>
                  (args.mask # None /\ AllZero(args.latent_image.samples))
            /\ Len(full) = 1 =>
                  /\ full[1].denoise = 100
                  /\ full[1].model = args.model
                  /\ full[1].seed = args.seed
                  /\ full[1].steps = args.steps
                  /\ full[1].cfg = args.cfg
                  /\ full[1].latent = args.latent_image

\* C19 (as claimed): once the base is seeded, with a mask and a latent_image
\* that has a non-zero value the base of the blend holds latent_image's own
\* sample values, the output of the base pass dropped; in every other case
\* it is the output of the base pass, the first Denoiser call.
C19_BaseOfTheBlend ==
    Past("seed") =>
        IF args.mask # None /\ ~AllZero(args.latent_image.samples)
        THEN samples_base_sampler.samples = args.latent_image.samples
        ELSE samples_base_sampler = KSamplerResult(1, args.latent_image)[1]

\* C20: the latent handed to the injection pass holds, element by element,
\* base * (1 - noise_strength) + noise * noise_strength for the seeded base
\* and the reconciled noise; at noise_strength 1.0 it holds the noise alone.
C20_InjectedLatentIsTheBlend ==
    Entered("phaseB") =>
        LET given == LastKSamplerCall.latent.samples
            ns == args.noise_strength
        IN  /\ \A j \in 1..NumSamples :
                  LET b == samples_base_sampler.samples.data[j]
                      n == samples_noise.data[j]
                  IN  given.data[j] =
                         Rat(b[1] * (100 - ns) * n[2] + n[1] * ns * b[2],
                             100 * b[2] * n[2])
            /\ ns = 100 => given.data = samples_noise.data
            /\ LastKSamplerCall.latent = samples_out

\* Half of the base pass's 11 and half of the noise's 2.
C20_Witness ==
    /\ pc = "composite"
    /\ args.noise_strength = 50
    /\ samples_base_sampler.samples.data[1] = <<11, 1>>
    /\ samples_noise.data[1] = <<2, 1>>
    /\ LastKSamplerCall.latent.samples.data[1] = <<13, 2>>

(***************************************************************************)
(* Claims about both nodes, under HostSpec.                                *)
(***************************************************************************)
\* C17: while and after a node runs, the caller's inputs are as they were
\* passed: the sampler's latent_image, container and sample values, and its
\* latent_noise, and the synthesizer's image batch.
C17_InputsUnmodified ==
    /\ pc # "idle" =>
          /\ held.latent_image = args.latent_image
          /\ held.latent_noise = args.latent_noise
    /\ nfi_pc # "idle" => nfi_held.image = nfi_args.image

\* The sampler has composited over a clone of a non-empty latent_image.
C17_Witness ==
    /\ pc = "returned"
    /\ args.mask # None
    /\ ~empty_latent
    /\ Issued("composite")
    /\ result.samples.data # args.latent_image.samples.data
    /\ samples_out.samples.data # args.latent_image.samples.data
    /\ held.latent_image = args.latent_image

(***************************************************************************)
(* Claims about the sampler's last steps, under SamplerSpec.               *)
(***************************************************************************)
CompositeCalls == SelectSeq(calls, LAMBDA c : c.fn = "composite")

\* C21 (as claimed): with a mask, once the composite statement has run,
\* composite has been called exactly once, after the injection pass, with
\* the injection pass's output as source, offsets 0 and 0, the caller's mask
\* and multiplier 8; its destination holds latent_image's samples when
\* latent_image has a non-zero value and the fallback's output when every
\* value is zero; the returned samples are that call's result.
C21_CompositeOverLatentOrFallback ==
    (Past("composite") /\ args.mask # None) =>
        LET out == KSamplerResult(Len(KSamplerCalls), LastKSamplerCall.latent)[1].samples
            dst == IF ~AllZero(args.latent_image.samples)
                   THEN args.latent_image.samples
                   ELSE samples_base_sampler2[1].samples
        IN  /\ Len(CompositeCalls) = 1
            /\ calls[Len(calls)].fn = "composite"
            /\ calls[Len(calls) - 1] = PhaseBCall
            /\ CompositeCalls[1].source = out
            /\ CompositeCalls[1].x = 0
            /\ CompositeCalls[1].y = 0
            /\ CompositeCalls[1].mask = args.mask
            /\ CompositeCalls[1].multiplier = 8
            /\ CompositeCalls[1].destination = dst
            /\ result.samples = composite(dst, out, args.mask)

\* The place of a collaborator call in the documented order: base pass,
\* fallback, resize of the noise, patch, injection pass, composite.
Rank(c) ==
    IF c.fn = "common_ksampler"
    THEN IF "start_step" \notin DOMAIN c THEN 2
         ELSE IF c.force_full_denoise THEN 1 ELSE 5
    ELSE IF c.fn = "common_upscale" THEN 3
    ELSE IF c.fn = "patch" THEN 4
    ELSE 6

CallsInOrder ==
    /\ \A k \in 1..Len(calls) - 1 : Rank(calls[k]) < Rank(calls[k + 1])
    /\ Len(calls) >= 1 => Rank(calls[1]) = 1
    /\ \A k \in 1..Len(calls) :
          /\ Rank(calls[k]) = 2 =>
                \* the base pass has returned: its output is stored
                IF Past("seed") THEN samples_base_sampler.samples # None
                ELSE samples_base_sampler =
                        KSamplerResult(1, args.latent_image)
          /\ Rank(calls[k]) = 5 =>
                \* the base pass and the fallback, if made, have returned
                /\ calls[k].latent = samples_out
                /\ NeedsFallback =>
                      /\ \E h \in 1..k - 1 : Rank(calls[h]) = 2
                      /\ samples_base_sampler2 =
                            KSamplerResult(2, args.latent_image)
          /\ Rank(calls[k]) = 6 =>
                \* the injection pass has returned: its output is the source
                /\ k > 1
                /\ Rank(calls[k - 1]) = 5
                /\ calls[k].source =
                      KSamplerResult(Len(KSamplerCalls), calls[k - 1].latent)[1].samples

\* C22: the collaborators are called one at a time and in the fixed order
\* base pass, fallback (when made), patch (when made), injection pass,
\* composite (when made): no step issues two calls, the base pass is the
\* first call, the injection pass is called only after the base pass and the
\* fallback have returned, and composite only after the injection pass has
\* returned, on its output.
C22_CallsOneAtATimeInOrder ==
    /\ []CallsInOrder
    /\ [][Len(calls') <= Len(calls) + 1]_vars

\* A masked invocation on an all-zero latent that made all five calls.
C22_Witness ==
    /\ pc = "returned"
    /\ Len(calls) = 6
    /\ Len(KSamplerCalls) = 3
    /\ Issued("patch")
    /\ Issued("common_upscale")
    /\ calls[6].fn = "composite"

(***************************************************************************)
(* Claims about the synthesizer's fold, under SynthSpec.                   *)
(***************************************************************************)
\* The documented accumulator: acc_0 = image[0], acc_k = blend(acc_{k-1},
\* image[k], mode, rate) divided by its own maximum.
RECURSIVE Acc(_)
Acc(k) ==
    IF k = 0 THEN nfi_args.image.data[1]
    ELSE LET prev == Acc(k - 1)
             b == [j \in 1..NumSamples |->
                      blend_images(prev[j], nfi_args.image.data[k + 1][j],
                                   nfi_args.blend_mode,
                                   Hundredths(nfi_args.blend_rate))]
             m == VectorMax(b, NumSamples)
         IN  [j \in 1..NumSamples |-> Div(b[j], m)]

C24_AccumulatorStaysInUnitRange ==
    (nfi_pc = "fold" /\ i > 1 /\ nfi_args.blend_mode \in SupportedModes) =>
        \A j \in 1..NumSamples :
           LET v == blended_image.data[1][j]
           IN  /\ IsFinite(v)
               /\ ~Lt(v, Zero)
               /\ ~Lt(One, v)

\* C25: a pass with an empty step range is still made. With inject_at_step
\* 0 the base pass is called with start_step = last_step = 0 and the
\* injection pass covers 0 to steps; with inject_at_step = steps the
\* injection pass is called with start_step = last_step = steps and the base
\* pass covers 0 to steps.
C25_EmptyRangePassStillCalled ==
    /\ (Entered("phaseA") /\ inject_at_step \in {0, args.steps}) =>
          /\ Len(KSamplerCalls) >= 1
          /\ "start_step" \in DOMAIN KSamplerCalls[1]
          /\ KSamplerCalls[1].force_full_denoise
          /\ KSamplerCalls[1].start_step = 0
          /\ KSamplerCalls[1].last_step = inject_at_step
    /\ (Entered("phaseB") /\ inject_at_step \in {0, args.steps}) =>
          /\ Len(KSamplerCalls) >= 2
          /\ "start_step" \in DOMAIN LastKSamplerCall
          /\ ~LastKSamplerCall.force_full_denoise
          /\ LastKSamplerCall.start_step = inject_at_step
          /\ LastKSamplerCall.last_step = args.steps

\* Injection at step 0 of 10: the base pass ran over no step.
C25_Witness ==
    /\ pc = "returned"
    /\ args.steps = 10
    /\ inject_at_step = 0
    /\ KSamplerCalls[1].start_step = 0
    /\ KSamplerCalls[1].last_step = 0
    /\ LastKSamplerCall.start_step = 0
    /\ LastKSamplerCall.last_step = 10

\* C26 (as claimed): an invocation that returns has made exactly three
\* Denoiser calls when a mask is supplied and every value of latent_image is
\* zero, exactly two otherwise; the first of them is the base pass.
C26_DenoiserCallCount ==
    pc = "returned" =>
        /\ Len(KSamplerCalls) =
              IF args.mask # None /\ AllZero(args.latent_image.samples)
              THEN 3 ELSE 2
        /\ "start_step" \in DOMAIN KSamplerCalls[1]
        /\ KSamplerCalls[1].force_full_denoise

(***************************************************************************)
(* Claims about the save node, under SaveSpec.                             *)
(***************************************************************************)
\* The digits of n, zero-padded to w places.
ZeroPadded(n, w) ==
    IF Len(Str(n)) >= w THEN Str(n)
    ELSE [k \in 1..(w - Len(Str(n))) |-> "0"] \o Str(n)

\* The counters present in the folder for a prefix: c is present when an
\* entry reads prefix, underscore, c in digits with or without leading
\* zeros, a dot and a three-letter extension.  No invocation here reaches a
\* counter above CounterWidth * MaxFiles.
CountersPresent(prefix) ==
    {c \in 1..(CounterWidth * MaxFiles) :
        \E w \in 1..CounterWidth, ext \in Extensions :
           (prefix \o <<"_">> \o ZeroPadded(c, w) \o <<".">> \o ext)
              \in output_folder}

\* C27: without filename_opt each pass of the loop saves its image under a
\* name no entry of the folder has: the prefix, the counter one greater
\* than the largest counter present in the folder for that prefix (1 if
\* there is none) in five digits, and the extension.  It raises nothing,
\* replaces no entry, and reports that name, which differs from every name
\* it reported before in the batch.
C27_CounterSaveNeverOverwrites ==
    [][(save_pc = "image" /\ batch_number < save_args.images
            /\ Falsy(save_args.filename_opt)) =>
          LET prefix == FilenameWithBatchNum(filename, batch_number)
              present == CountersPresent(prefix)
              counter == IF present = {} THEN 1 ELSE SetMax(present) + 1
              new == prefix \o <<"_">> \o ZeroPadded(counter, 5) \o <<".">>
                        \o save_args.extension
          IN  /\ save_pc' = "image"
              /\ new \notin output_folder
              /\ output_folder' = output_folder \cup {new}
              /\ Len(results') = Len(results) + 1
              /\ results'[Len(results')].filename = new
              /\ \A k \in 1..Len(results) : results[k].filename # new]_vars

\* A batch of two saved next to another program's a_7.png: counters 8 and 9.
C27_Witness ==
    /\ save_pc = "returned"
    /\ save_args.filename_opt = None
    /\ save_args.images = 2
    /\ <<"a", "_", "7", ".", "p", "n", "g">> \in output_folder
    /\ Len(results) = 2
    /\ results[1].filename =
          <<"a", "_", "0", "0", "0", "0", "8", ".", "p", "n", "g">>
    /\ results[2].filename =
          <<"a", "_", "0", "0", "0", "0", "9", ".", "p", "n", "g">>

====
